---- MODULE Spec2Model ----
(***************************************************************************)
(* Model of the Tauri command layer of better-shot:                        *)
(*   src-tauri/src/commands.rs   (capture commands, SCREENCAPTURE_LOCK)    *)
(*   src-tauri/src/clipboard.rs  (copy_image_to_clipboard)                 *)
(* Each task is one invocation of a command running on the async runtime. *)
(* Outcomes of subprocesses, of the file system and of the xcap library   *)
(* are inputs drawn with \E.                                               *)
(***************************************************************************)
EXTENDS Naturals, Sequences, FiniteSets, TLC

VARIABLES
    platform,   \* the target_os the binary was built for
    lock,       \* SCREENCAPTURE_LOCK: 0 when free, else the task holding the guard
    pc,         \* where each task is in its command
    op,         \* the command each task runs
    dir,        \* its save_dir argument
    clip,       \* its copy_to_clip argument
    path,       \* its screenshot_path
    log,        \* what the running command has done so far
    ret,        \* the last result handed back to a caller
    files,      \* the files that exist in the save directories
    probeFile   \* <temp>/bs_test_<pid>.png exists

vars == <<platform, lock, pc, op, dir, clip, path, log, ret, files, probeFile>>

\* ---------------------------------------------------------------- bounds
NumTasks == 2
MaxNames == 1

Tasks == 1..NumTasks
Stamps == 1..MaxNames

\* ------------------------------------------------------------ vocabulary
Platforms == {"macos", "windows", "other"}
NativeOps == {"interactive", "fullscreen", "window"}
SaveDirs == {"shots"}

NoPath == [dir |-> "", file |-> ""]

\* PathBuf::from(&save_dir).join(&filename)
Join(d, f) == [dir |-> d, file |-> f]

\* PathBuf::from(&save_dir): the directory itself
DirPath(d) == [dir |-> d, file |-> ""]

\* utils::generate_filename(prefix, ext): a timestamped name
GenerateFilename(prefix, ext, stamp) == prefix \o "_" \o ToString(stamp) \o "." \o ext

Ok(p) == [ok |-> TRUE, msg |-> "", path |-> p]
Err(m) == [ok |-> FALSE, msg |-> m, path |-> NoPath]

\* the arguments of a command, as far as the model reads them:
\*   dir    save_dir             clip   copy_to_clip
\*   valid  image_data decodes   path   image_path
Args(d, c, v, p) == [dir |-> d, clip |-> c, valid |-> v, path |-> p]
NoArgs == Args("", FALSE, TRUE, NoPath)

NoRet == [op |-> "none", arg |-> NoArgs, res |-> Err(""), cause |-> "", log |-> <<>>]

\* --------------------------------------------------------- error strings
ErrInProgress == "Another screenshot capture is already in progress"
ErrNotGranted == "Screen Recording permission not granted"
ErrPermissionRequired == "Screen Recording permission required. Please grant permission in System Settings > Privacy & Security > Screen Recording and restart the app."
ErrCancelled == "Screenshot was cancelled or failed"
ErrFailed == "Screenshot failed"
ErrNoMonitors == "No monitors available"

\* format!("Permission check failed: {}. Please ensure ...", e)
GateMessage(e) == "Permission check failed: " \o e \o ". Please ensure Screen Recording permission is granted in System Settings > Privacy & Security > Screen Recording."

\* format!("Failed to run screencapture: {}", e); e is the io::Error text
SpawnMessage(e) == "Failed to run screencapture: " \o e

\* format!("Failed to wait for screencapture: {}", e)
WaitMessage(e) == "Failed to wait for screencapture: " \o e

\* the Err of generate_filename, passed through by `?`
ErrFilename == "Failed to generate filename"

IoError == "os error"

\* the platform fallback of the three native commands
Unsupported(o) ==
    CASE o = "interactive" -> "Interactive capture not supported on this platform"
      [] o = "fullscreen" -> "Fullscreen capture not supported on this platform"
      [] o = "window" -> "Window capture not supported on this platform"

\* ------------------------------------------------------------------ Init
Init ==
    /\ platform \in Platforms
    /\ lock = 0
    /\ pc = [t \in Tasks |-> "idle"]
    /\ op = [t \in Tasks |-> "none"]
    /\ dir = [t \in Tasks |-> ""]
    /\ clip = [t \in Tasks |-> FALSE]
    /\ path = [t \in Tasks |-> NoPath]
    /\ log = [t \in Tasks |-> <<>>]
    /\ ret = NoRet
    /\ files = {}
    /\ probeFile = FALSE

\* the states in which a task holds the MutexGuard `_lock`
CriticalPcs == {"locked", "live", "probing", "permitted", "capturing", "captured"}

\* a screencapture process of this application is alive
OwnScreencapture == \E u \in Tasks : pc[u] \in {"probing", "capturing"}

\* ------------------------------------------------------- lock and return
\* variant: the mutex is taken without regard to its holder
LockFree_Unchecked == TRUE

\* Mutex::lock() can take the mutex. (No command panics while it holds the
\* guard, so the mutex is never poisoned and lock() never returns Err.)
LockFree == lock = 0

\* variant: the guard outlives the function (it is leaked)
Release_Leaked(t) == lock

\* drop of the guard `_lock` when the function returns
Release(t) == IF lock = t THEN 0 ELSE lock

\* a `return` / `?` / final expression of a command: the result goes to the
\* caller and every local, the guard included, is dropped
Finish(t, o, a, r, c, ev) ==
    /\ ret' = [op |-> o, arg |-> a, res |-> r, cause |-> c, log |-> log[t] \o ev]
    /\ pc' = [pc EXCEPT ![t] = "idle"]
    /\ op' = [op EXCEPT ![t] = "none"]
    /\ dir' = [dir EXCEPT ![t] = ""]
    /\ clip' = [clip EXCEPT ![t] = FALSE]
    /\ path' = [path EXCEPT ![t] = NoPath]
    /\ log' = [log EXCEPT ![t] = <<>>]
    /\ lock' = Release(t)

\* the arguments of a running native capture
NativeArgs(t) == Args(dir[t], FALSE, TRUE, NoPath)

\* variant: a spawn failure is reported with the string of a failed capture
ErrorFor_SpawnAsFailed(o, c) ==
    CASE c = "in_progress" -> ErrInProgress
      [] c = "gate" -> GateMessage(ErrNotGranted)
      [] c = "filename" -> ErrFilename
      [] c = "spawn" -> IF o = "fullscreen" THEN ErrFailed ELSE ErrCancelled
      [] c = "wait" -> IF o = "fullscreen" THEN SpawnMessage(IoError) ELSE WaitMessage(IoError)
      [] c = "exit" -> IF o = "fullscreen" THEN ErrFailed ELSE ErrCancelled
      [] c = "exit_perm" -> ErrPermissionRequired
      [] c = "missing" -> IF o = "fullscreen" THEN ErrFailed ELSE ErrCancelled

\* the error string of each failure condition of the macOS captures
ErrorFor(o, c) ==
    CASE c = "in_progress" -> ErrInProgress
      [] c = "gate" -> GateMessage(ErrNotGranted)
      [] c = "filename" -> ErrFilename
      [] c = "spawn" -> SpawnMessage(IoError)
      [] c = "wait" -> IF o = "fullscreen" THEN SpawnMessage(IoError) ELSE WaitMessage(IoError)
      [] c = "exit" -> IF o = "fullscreen" THEN ErrFailed ELSE ErrCancelled
      [] c = "exit_perm" -> ErrPermissionRequired
      [] c = "missing" -> IF o = "fullscreen" THEN ErrFailed ELSE ErrCancelled

\* the functions a native capture command enters, in call order: the cfg
\* dispatch picks the implementation, and native_capture_window_windows
\* calls native_capture_fullscreen_windows
CallPath(plat, o) ==
    CASE plat = "windows" /\ o = "window" ->
            <<"native_capture_window_windows", "native_capture_fullscreen_windows">>
      [] plat = "windows" /\ o # "window" -> <<"native_capture_" \o o \o "_windows">>
      [] plat = "macos" -> <<"native_capture_" \o o \o "_macos">>
      [] OTHER -> <<>>

\* variant: the delegating function takes the lock before it delegates
TakesLock_Wrapper(f) == TRUE

\* the body of f begins with SCREENCAPTURE_LOCK.lock()
TakesLock(f) == f # "native_capture_window_windows"

\* how many times one invocation calls lock() on its thread. The mutex is
\* not reentrant: a second lock() by its holder does not return.
LockCalls(plat, o) ==
    Cardinality({i \in DOMAIN CallPath(plat, o) : TakesLock(CallPath(plat, o)[i])})

\* native_capture_interactive / _fullscreen / _window: the cfg dispatch and,
\* on macOS and Windows, the first statement of the implementation,
\* SCREENCAPTURE_LOCK.lock(): it takes the mutex when it is free, otherwise
\* the calling thread parks until it is (std::sync::Mutex::lock blocks)
InvokeNative(t) ==
    /\ pc[t] = "idle"
    /\ \E o \in NativeOps, d \in SaveDirs :
        IF platform = "other"
        THEN Finish(t, o, Args(d, FALSE, TRUE, NoPath), Err(Unsupported(o)), "unsupported", <<>>)
        ELSE /\ op' = [op EXCEPT ![t] = o]
             /\ dir' = [dir EXCEPT ![t] = d]
             /\ IF LockFree
                THEN /\ lock' = t
                     /\ pc' = [pc EXCEPT ![t] =
                                IF LockCalls(platform, o) > 1 THEN "blocked" ELSE "locked"]
                     /\ log' = [log EXCEPT ![t] = <<"lock">>]
                ELSE /\ pc' = [pc EXCEPT ![t] = "blocked"]
                     /\ UNCHANGED <<lock, log>>
             /\ UNCHANGED <<clip, path, ret>>
    /\ UNCHANGED <<platform, files, probeFile>>

\* the parked thread is woken once the holder has dropped its guard
Unblock(t) ==
    /\ pc[t] = "blocked"
    /\ LockFree
    /\ lock' = t
    /\ pc' = [pc EXCEPT ![t] = "locked"]
    /\ log' = [log EXCEPT ![t] = <<"lock">>]
    /\ UNCHANGED <<platform, op, dir, clip, path, ret, files, probeFile>>

\* ------------------------------------------------------- macOS: liveness
\* is_screencapture_running: pgrep -x screencapture; exit 0 iff a process
\* of that name exists; a pgrep that cannot be run counts as "not running"
IsScreencaptureRunning(pgrepRan, anyProcess) == pgrepRan /\ anyProcess

\* variant: the `return` after a positive liveness check is missing
Liveness_NoReturn(t) ==
    /\ pc[t] = "locked"
    /\ platform = "macos"
    /\ \E pgrepRan \in BOOLEAN, extRunning \in BOOLEAN :
        /\ pc' = [pc EXCEPT ![t] = "live"]
        /\ log' = [log EXCEPT ![t] = log[t] \o
                      IF IsScreencaptureRunning(pgrepRan, extRunning \/ OwnScreencapture)
                      THEN <<"pgrep:running">> ELSE <<"pgrep:none">>]
        /\ UNCHANGED <<op, dir, clip, path, ret, lock>>
    /\ UNCHANGED <<platform, files, probeFile>>

\* the check made right after the lock is taken; extRunning: a screencapture
\* of another program (or another instance of the application) is alive
Liveness(t) ==
    /\ pc[t] = "locked"
    /\ platform = "macos"
    /\ \E pgrepRan \in BOOLEAN, extRunning \in BOOLEAN :
        IF IsScreencaptureRunning(pgrepRan, extRunning \/ OwnScreencapture)
        THEN Finish(t, op[t], NativeArgs(t), Err(ErrorFor(op[t], "in_progress")), "in_progress", <<"pgrep:running">>)
        ELSE /\ pc' = [pc EXCEPT ![t] = "live"]
             /\ log' = [log EXCEPT ![t] = log[t] \o <<"pgrep:none">>]
             /\ UNCHANGED <<op, dir, clip, path, ret, lock>>
    /\ UNCHANGED <<platform, files, probeFile>>

\* -------------------------------------------------- macOS: permission gate
\* check_and_activate_permission, given what happened to the probe
\* `screencapture -x -T 0 <temp>/bs_test_<pid>.png`:
\*   o.spawned    the probe process started
\*   o.collected  Command::output() returned Ok
\*   o.denial     stderr (Ok) or the io::Error text (Err) contains
\*                "permission", "denied" or "not authorized"
\*   o.wrote      the probe process created the probe file
\* and whether the probe file existed before. Yields the Result and whether
\* the probe file exists afterwards.
CheckAndActivatePermission(o, fileBefore) ==
    LET written == fileBefore \/ (o.spawned /\ o.wrote) IN
    IF o.spawned /\ o.collected
    THEN [res |-> IF o.denial THEN Err(ErrNotGranted) ELSE Ok(NoPath),
          file |-> FALSE]
    ELSE [res |-> IF o.denial THEN Err(ErrNotGranted) ELSE Ok(NoPath),
          file |-> written]

\* the caller's `.map_err(...)?` on the gate's result
AfterGate(t, g, ev) ==
    /\ probeFile' = g.file
    /\ IF g.res.ok
       THEN /\ pc' = [pc EXCEPT ![t] = "permitted"]
            /\ log' = [log EXCEPT ![t] = log[t] \o ev \o <<"probe:ok">>]
            /\ UNCHANGED <<op, dir, clip, path, ret, lock>>
       ELSE Finish(t, op[t], NativeArgs(t), Err(GateMessage(g.res.msg)), "gate",
                   ev \o <<"probe:denied">>)

\* the probe is started (or cannot be started)
ProbeStart(t) ==
    /\ pc[t] = "live"
    /\ \E spawned \in BOOLEAN, denial \in BOOLEAN :
        IF spawned
        THEN /\ pc' = [pc EXCEPT ![t] = "probing"]
             /\ log' = [log EXCEPT ![t] = log[t] \o <<"probe">>]
             /\ UNCHANGED <<op, dir, clip, path, ret, lock, probeFile>>
        ELSE AfterGate(t, CheckAndActivatePermission(
                 [spawned |-> FALSE, collected |-> FALSE, denial |-> denial, wrote |-> FALSE],
                 probeFile), <<"probe">>)
    /\ UNCHANGED <<platform, files>>

\* the probe process has ended and output() returns
ProbeEnd(t) ==
    /\ pc[t] = "probing"
    /\ \E collected \in BOOLEAN, denial \in BOOLEAN, wrote \in BOOLEAN :
        AfterGate(t, CheckAndActivatePermission(
            [spawned |-> TRUE, collected |-> collected, denial |-> denial, wrote |-> wrote],
            probeFile), <<>>)
    /\ UNCHANGED <<platform, files>>

\* ------------------------------------------------------ macOS: the capture
\* generate_filename, the destination path, and the start of the real
\* screencapture (-i -x, -x, or -w -x) on that path
CaptureStart(t) ==
    /\ pc[t] = "permitted"
    /\ \E named \in BOOLEAN :
       \E spawned \in (IF named THEN BOOLEAN ELSE {FALSE}) :
       \E stamp \in (IF spawned THEN Stamps ELSE {1}) :
        IF ~named
        THEN Finish(t, op[t], NativeArgs(t), Err(ErrorFor(op[t], "filename")), "filename", <<>>)
        ELSE IF spawned
        THEN /\ path' = [path EXCEPT ![t] = Join(dir[t], GenerateFilename("screenshot", "png", stamp))]
             /\ pc' = [pc EXCEPT ![t] = "capturing"]
             /\ log' = [log EXCEPT ![t] = log[t] \o <<"spawn">>]
             /\ UNCHANGED <<op, dir, clip, ret, lock>>
        ELSE Finish(t, op[t], NativeArgs(t), Err(ErrorFor(op[t], "spawn")), "spawn", <<"spawn:failed">>)
    /\ UNCHANGED <<platform, files, probeFile>>

\* variant: a zero exit status is taken for success, the destination file
\* is not looked at
CaptureOutcome_NoExists(o, p, fs, out) ==
    LET fs1 == IF out.wrote THEN fs \cup {p} ELSE fs IN
    IF ~out.waited
    THEN [res |-> Err(ErrorFor(o, "wait")), cause |-> "wait", files |-> fs1, ev |-> <<>>]
    ELSE IF ~out.success
    THEN IF o = "fullscreen"
         THEN [res |-> Err(ErrorFor(o, "exit")), cause |-> "exit", files |-> fs1, ev |-> <<>>]
         ELSE [res |-> Err(ErrorFor(o, IF out.denial THEN "exit_perm" ELSE "exit")),
               cause |-> IF out.denial THEN "exit_perm" ELSE "exit",
               files |-> fs1 \ {p}, ev |-> <<>>]
    ELSE [res |-> Ok(p), cause |-> "", files |-> fs1, ev |-> <<"exists">>]

\* what the command makes of the ended screencapture process:
\*   out.waited   wait_with_output() / status() returned Ok
\*   out.success  the exit status is zero
\*   out.denial   stderr contains "permission", "denied" or "not authorized"
\*   out.wrote    the process wrote the destination file
\* Yields the Result, the failure condition, the files of the save directory
\* afterwards and the checks made.
CaptureOutcome(o, p, fs, out) ==
    LET fs1 == IF out.wrote THEN fs \cup {p} ELSE fs IN
    IF ~out.waited
    THEN [res |-> Err(ErrorFor(o, "wait")), cause |-> "wait", files |-> fs1, ev |-> <<>>]
    ELSE IF ~out.success
    THEN IF o = "fullscreen"
         THEN [res |-> Err(ErrorFor(o, "exit")), cause |-> "exit", files |-> fs1, ev |-> <<>>]
         ELSE [res |-> Err(ErrorFor(o, IF out.denial THEN "exit_perm" ELSE "exit")),
               cause |-> IF out.denial THEN "exit_perm" ELSE "exit",
               files |-> fs1 \ {p}, ev |-> <<>>]
    ELSE IF p \in fs1
    THEN [res |-> Ok(p), cause |-> "", files |-> fs1, ev |-> <<"exists">>]
    ELSE [res |-> Err(ErrorFor(o, "missing")), cause |-> "missing", files |-> fs1, ev |-> <<"exists">>]

\* how a screencapture process can end: an exit status exists only if the
\* wait returned, stderr is read only after a non-zero exit
CaptureOuts ==
    {out \in [waited : BOOLEAN, success : BOOLEAN, denial : BOOLEAN, wrote : BOOLEAN] :
        /\ out.success => out.waited
        /\ out.denial => (out.waited /\ ~out.success)}

\* the screencapture process ends and the command returns
CaptureEnd(t) ==
    /\ pc[t] = "capturing"
    /\ \E out \in CaptureOuts :
        LET r == CaptureOutcome(op[t], path[t], files, out) IN
        /\ files' = r.files
        /\ Finish(t, op[t], NativeArgs(t), r.res, r.cause, r.ev)
    /\ UNCHANGED <<platform, probeFile>>

\* ---------------------------------------------------- Windows: the capture
\* Monitor::all(), the is_empty test, monitors[0].capture_image():
\*   mon       Monitor::all() failed, gave no monitor, or gave some
\*   captured  capture_image() of the first monitor returned Ok
WindowsMonitors(mon, captured) ==
    CASE mon = "err" -> [res |-> Err("Failed to get monitors: " \o IoError), cause |-> "monitors"]
      [] mon = "empty" -> [res |-> Err(ErrNoMonitors), cause |-> "no_monitors"]
      [] mon = "some" /\ ~captured ->
            [res |-> Err("Failed to capture screen: " \o IoError), cause |-> "capture"]
      [] mon = "some" /\ captured -> [res |-> Ok(NoPath), cause |-> ""]

WinCapture(t) ==
    /\ pc[t] = "locked"
    /\ platform = "windows"
    /\ \E mon \in {"err", "empty", "some"} :
       \E captured \in (IF mon = "some" THEN BOOLEAN ELSE {FALSE}) :
        LET m == WindowsMonitors(mon, captured) IN
        IF ~m.res.ok
        THEN Finish(t, op[t], NativeArgs(t), m.res, m.cause, <<>>)
        ELSE /\ pc' = [pc EXCEPT ![t] = "captured"]
             /\ log' = [log EXCEPT ![t] = log[t] \o <<"capture_image">>]
             /\ UNCHANGED <<op, dir, clip, path, ret, lock>>
    /\ UNCHANGED <<platform, files, probeFile>>

\* image.save(&screenshot_path): saved = it returned Ok (the file is then
\* written); wrote = a failed save left a file behind
WindowsSave(p, fs, saved, wrote) ==
    IF saved
    THEN [res |-> Ok(p), cause |-> "", files |-> fs \cup {p}]
    ELSE [res |-> Err("Failed to save screenshot: " \o IoError), cause |-> "save",
          files |-> IF wrote THEN fs \cup {p} ELSE fs]

\* generate_filename, the destination path, image.save, and the return
WinSave(t) ==
    /\ pc[t] = "captured"
    /\ \E named \in BOOLEAN :
       \E saved \in (IF named THEN BOOLEAN ELSE {FALSE}) :
       \E wrote \in (IF named /\ ~saved THEN BOOLEAN ELSE {saved}) :
       \E stamp \in (IF wrote THEN Stamps ELSE {1}) :
        IF ~named
        THEN /\ Finish(t, op[t], NativeArgs(t), Err(ErrFilename), "filename", <<>>)
             /\ UNCHANGED files
        ELSE LET r == WindowsSave(Join(dir[t], GenerateFilename("screenshot", "png", stamp)),
                                  files, saved, wrote) IN
             /\ files' = r.files
             /\ Finish(t, op[t], NativeArgs(t), r.res, r.cause, <<"save">>)
    /\ UNCHANGED <<platform, probeFile>>

\* what the environment does to one run of the Windows capture
WinEnvs ==
    [mon : {"err", "empty", "some"}, captured : BOOLEAN, named : BOOLEAN,
     saved : BOOLEAN, wrote : BOOLEAN, stamp : Stamps]

\* native_capture_fullscreen_windows(save_dir) as a function of its input,
\* the files present and the environment: the result, the files afterwards
\* and the steps taken
NativeCaptureFullscreenWindows(d, fs, e) ==
    LET m == WindowsMonitors(e.mon, e.captured)
        r == WindowsSave(Join(d, GenerateFilename("screenshot", "png", e.stamp)),
                         fs, e.saved, e.wrote) IN
    IF ~m.res.ok
    THEN [res |-> m.res, cause |-> m.cause, files |-> fs, ev |-> <<"lock">>]
    ELSE IF ~e.named
    THEN [res |-> Err(ErrFilename), cause |-> "filename", files |-> fs,
          ev |-> <<"lock", "capture_image">>]
    ELSE [res |-> r.res, cause |-> r.cause, files |-> r.files,
          ev |-> <<"lock", "capture_image", "save">>]

\* ---------------------------------------------------------- the clipboard
\* what exists at a path: a regular file, a directory, or nothing
PathKind(p, fs) ==
    IF p \in fs THEN "file"
    ELSE IF p.file = "" /\ p.dir \in SaveDirs THEN "dir"
    ELSE "none"

\* image_path as it is formatted into a message
PathString(p) == p.dir \o "/" \o p.file

ErrClipboardUnsupported == "Clipboard copy not supported on this platform"
ClipboardFailed(stderr) == "Failed to copy image to clipboard: " \o stderr

\* copy_image_to_clipboard_macos: the AppleScript
\*   set the clipboard to (read (POSIX file "<path>") as «class PNGf»)
\* is run by osascript; the read fails, and osascript exits non-zero, unless
\* the path is a readable file
\*   env.spawned  the process could be started
\*   env.success  the tool did its work on a path it could read
CopyImageToClipboardMacos(p, fs, env) ==
    IF ~env.spawned
    THEN [res |-> Err("Failed to execute osascript: " \o IoError), procs |-> <<>>]
    ELSE IF env.success /\ PathKind(p, fs) = "file"
    THEN [res |-> Ok(NoPath), procs |-> <<"osascript">>]
    ELSE [res |-> Err(ClipboardFailed("execution error")), procs |-> <<"osascript">>]

\* variant: the path is handed to PowerShell without the exists / is_file
\* validation
CopyImageToClipboardWindows_NoValidation(p, fs, env) ==
    IF ~env.spawned
    THEN [res |-> Err("Failed to execute PowerShell: " \o IoError), procs |-> <<>>]
    ELSE IF ~env.success \/ PathKind(p, fs) # "file"
    THEN [res |-> Err(ClipboardFailed("exception")), procs |-> <<"powershell">>]
    ELSE [res |-> Ok(NoPath), procs |-> <<"powershell">>]

\* copy_image_to_clipboard_windows: exists, is_file, canonicalize, then the
\* PowerShell script
\*   env.canon  canonicalize() returned Ok
CopyImageToClipboardWindows(p, fs, env) ==
    IF PathKind(p, fs) = "none"
    THEN [res |-> Err("File not found: " \o PathString(p)), procs |-> <<>>]
    ELSE IF PathKind(p, fs) # "file"
    THEN [res |-> Err("Path is not a file: " \o PathString(p)), procs |-> <<>>]
    ELSE IF ~env.canon
    THEN [res |-> Err("Failed to resolve path: " \o IoError), procs |-> <<>>]
    ELSE IF ~env.spawned
    THEN [res |-> Err("Failed to execute PowerShell: " \o IoError), procs |-> <<>>]
    ELSE IF ~env.success
    THEN [res |-> Err(ClipboardFailed("exception")), procs |-> <<"powershell">>]
    ELSE [res |-> Ok(NoPath), procs |-> <<"powershell">>]

\* copy_image_to_clipboard: the cfg dispatch. Yields the Result and the
\* processes that were started.
CopyImageToClipboard(plat, p, fs, env) ==
    CASE plat = "macos" -> CopyImageToClipboardMacos(p, fs, env)
      [] plat = "windows" -> CopyImageToClipboardWindows(p, fs, env)
      [] OTHER -> [res |-> Err(ErrClipboardUnsupported), procs |-> <<>>]

\* what can happen to a clipboard copy: the path does not canonicalize, the
\* process cannot be started, it exits non-zero, or it succeeds
ClipEnvs ==
    {e \in [spawned : BOOLEAN, success : BOOLEAN, canon : BOOLEAN] :
        /\ e.spawned => e.canon
        /\ e.success => e.spawned}

\* the outcome drawn where no clipboard copy is attempted
NoClipEnv == [spawned |-> FALSE, success |-> FALSE, canon |-> FALSE]

\* the paths a caller may pass: a screenshot or an edited image of a save
\* directory, present or not, or the directory itself
ImagePaths ==
    {Join(d, GenerateFilename(pre, "png", n)) :
        d \in SaveDirs, pre \in {"screenshot", "bettershot"}, n \in Stamps}
    \cup {DirPath(d) : d \in SaveDirs}

\* a call of copy_image_to_clipboard(image_path)
CopyImage(t) ==
    /\ pc[t] = "idle"
    /\ \E p \in ImagePaths, env \in ClipEnvs :
        LET cb == CopyImageToClipboard(platform, p, files, env) IN
        Finish(t, "copy_image_to_clipboard", Args("", FALSE, TRUE, p),
               cb.res, IF cb.res.ok THEN "" ELSE "clipboard",
               <<"clipboard">> \o cb.procs)
    /\ UNCHANGED <<platform, files, probeFile>>

\* ------------------------------------------------------- save_edited_image
ErrDecode == "Failed to decode base64"
ErrWrite == "Failed to save image"

\* image::save_base64_image(image_data, save_dir, prefix): strips the
\* media-type marker, decodes, writes a uniquely named file
SaveBase64Image(valid, d, prefix, stamp, wrote, fs) ==
    IF ~valid
    THEN [res |-> Err(ErrDecode), cause |-> "decode", files |-> fs]
    ELSE IF ~wrote
    THEN [res |-> Err(ErrWrite), cause |-> "write", files |-> fs]
    ELSE [res |-> Ok(Join(d, GenerateFilename(prefix, "png", stamp))), cause |-> "",
          files |-> fs \cup {Join(d, GenerateFilename(prefix, "png", stamp))}]

\* variant: the clipboard is written before the save result is looked at
SaveEditedImageFlow_ClipFirst(s, c, cb) ==
    IF ~c
    THEN [res |-> s.res, cause |-> s.cause, ev |-> <<"save">>]
    ELSE IF ~s.res.ok
    THEN [res |-> s.res, cause |-> s.cause, ev |-> <<"save", "clipboard">> \o cb.procs]
    ELSE IF cb.res.ok
    THEN [res |-> s.res, cause |-> "", ev |-> <<"save", "clipboard">> \o cb.procs]
    ELSE [res |-> cb.res, cause |-> "clipboard", ev |-> <<"save", "clipboard">> \o cb.procs]

\* the body of save_edited_image after the save step returned s:
\*   let saved_path = s?; if copy_to_clip { copy_image_to_clipboard(..)?; }
\*   Ok(saved_path)
\* cb is what copy_image_to_clipboard does when called on the saved path
SaveEditedImageFlow(s, c, cb) ==
    IF ~s.res.ok
    THEN [res |-> s.res, cause |-> s.cause, ev |-> <<"save">>]
    ELSE IF ~c
    THEN [res |-> s.res, cause |-> "", ev |-> <<"save">>]
    ELSE IF cb.res.ok
    THEN [res |-> s.res, cause |-> "", ev |-> <<"save", "clipboard">> \o cb.procs]
    ELSE [res |-> cb.res, cause |-> "clipboard", ev |-> <<"save", "clipboard">> \o cb.procs]

SaveEditedImage(t) ==
    /\ pc[t] = "idle"
    /\ \E valid \in BOOLEAN, d \in SaveDirs, c \in BOOLEAN :
       \E wrote \in (IF valid THEN BOOLEAN ELSE {FALSE}) :
       \E stamp \in (IF wrote THEN Stamps ELSE {1}) :
       \E env \in (IF wrote /\ c THEN ClipEnvs ELSE {NoClipEnv}) :
        LET s == SaveBase64Image(valid, d, "bettershot", stamp, wrote, files)
            cb == CopyImageToClipboard(platform, s.res.path, s.files, env)
            f == SaveEditedImageFlow(s, c, cb) IN
        /\ files' = s.files
        /\ Finish(t, "save_edited_image", Args(d, c, valid, NoPath), f.res, f.cause, f.ev)
    /\ UNCHANGED <<platform, probeFile>>

\* ------------------------------------------- capture_once, capture_all_monitors
ErrPrimary == "Failed to capture primary monitor"
ErrCopy == "Failed to copy screenshot"
ErrMonitors == "Failed to capture monitors"

\* variant: capture_once takes SCREENCAPTURE_LOCK like the native captures
InvokeOnce_Locked(t) ==
    /\ pc[t] = "idle"
    /\ LockFree
    /\ \E d \in SaveDirs, c \in BOOLEAN :
        /\ op' = [op EXCEPT ![t] = "capture_once"]
        /\ dir' = [dir EXCEPT ![t] = d]
        /\ clip' = [clip EXCEPT ![t] = c]
    /\ pc' = [pc EXCEPT ![t] = "once_capturing"]
    /\ lock' = t
    /\ UNCHANGED <<platform, path, log, ret, files, probeFile>>

\* capture_once is called: capture_primary_monitor(app_handle) is awaited
InvokeOnce(t) ==
    /\ pc[t] = "idle"
    /\ \E d \in SaveDirs, c \in BOOLEAN :
        /\ op' = [op EXCEPT ![t] = "capture_once"]
        /\ dir' = [dir EXCEPT ![t] = d]
        /\ clip' = [clip EXCEPT ![t] = c]
    /\ pc' = [pc EXCEPT ![t] = "once_capturing"]
    /\ UNCHANGED <<platform, lock, path, log, ret, files, probeFile>>

\* image::copy_screenshot_to_dir(screenshot_path, save_dir)
CopyScreenshotToDir(d, stamp, copied, fs) ==
    IF ~copied
    THEN [res |-> Err(ErrCopy), cause |-> "copy", files |-> fs]
    ELSE [res |-> Ok(Join(d, GenerateFilename("screenshot", "png", stamp))), cause |-> "",
          files |-> fs \cup {Join(d, GenerateFilename("screenshot", "png", stamp))}]

\* variant: a failed clipboard copy is dropped and the saved path returned
CaptureOnceFlow_IgnoreClipboard(s, c, cb) ==
    IF ~s.res.ok
    THEN [res |-> s.res, cause |-> s.cause, ev |-> <<"save">>]
    ELSE IF ~c
    THEN [res |-> s.res, cause |-> "", ev |-> <<"save">>]
    ELSE [res |-> s.res, cause |-> "", ev |-> <<"save", "clipboard">> \o cb.procs]

\* the body of capture_once after the capture and the copy returned s
CaptureOnceFlow(s, c, cb) ==
    IF ~s.res.ok
    THEN [res |-> s.res, cause |-> s.cause, ev |-> <<"save">>]
    ELSE IF ~c
    THEN [res |-> s.res, cause |-> "", ev |-> <<"save">>]
    ELSE IF cb.res.ok
    THEN [res |-> s.res, cause |-> "", ev |-> <<"save", "clipboard">> \o cb.procs]
    ELSE [res |-> cb.res, cause |-> "clipboard", ev |-> <<"save", "clipboard">> \o cb.procs]

\* the capture has ended; the rest of capture_once runs
OnceFinish(t) ==
    /\ pc[t] = "once_capturing"
    /\ \E captured \in BOOLEAN :
        IF ~captured
        THEN /\ Finish(t, op[t], Args(dir[t], clip[t], TRUE, NoPath),
                       Err(ErrPrimary), "capture", <<>>)
             /\ UNCHANGED files
        ELSE \E copied \in BOOLEAN :
             \E stamp \in (IF copied THEN Stamps ELSE {1}) :
             \E env \in (IF copied /\ clip[t] THEN ClipEnvs ELSE {NoClipEnv}) :
            LET s == CopyScreenshotToDir(dir[t], stamp, copied, files)
                cb == CopyImageToClipboard(platform, s.res.path, s.files, env)
                f == CaptureOnceFlow(s, clip[t], cb) IN
            /\ files' = s.files
            /\ Finish(t, op[t], Args(dir[t], clip[t], TRUE, NoPath), f.res, f.cause, f.ev)
    /\ UNCHANGED <<platform, probeFile>>

\* capture_all_monitors is called: screenshot::capture_all_monitors(&save_dir)
\* runs
InvokeAll(t) ==
    /\ pc[t] = "idle"
    /\ \E d \in SaveDirs :
        /\ op' = [op EXCEPT ![t] = "capture_all_monitors"]
        /\ dir' = [dir EXCEPT ![t] = d]
    /\ pc' = [pc EXCEPT ![t] = "all_capturing"]
    /\ UNCHANGED <<platform, lock, clip, path, log, ret, files, probeFile>>

\* it returns the shots (here: of one monitor) or its error
AllFinish(t) ==
    /\ pc[t] = "all_capturing"
    /\ \E captured \in BOOLEAN :
       \E stamp \in (IF captured THEN Stamps ELSE {1}) :
        LET p == Join(dir[t], GenerateFilename("screenshot", "png", stamp)) IN
        IF captured
        THEN /\ files' = files \cup {p}
             /\ Finish(t, op[t], NativeArgs(t), Ok(p), "", <<>>)
        ELSE /\ UNCHANGED files
             /\ Finish(t, op[t], NativeArgs(t), Err(ErrMonitors), "capture", <<>>)
    /\ UNCHANGED <<platform, probeFile>>

\* --------------------------------------------------------- specifications
\* the three native captures, invoked concurrently
Next ==
    \/ \E t \in Tasks : InvokeNative(t)
    \/ \E t \in Tasks : Unblock(t)
    \/ \E t \in Tasks : Liveness(t)
    \/ \E t \in Tasks : ProbeStart(t)
    \/ \E t \in Tasks : ProbeEnd(t)
    \/ \E t \in Tasks : CaptureStart(t)
    \/ \E t \in Tasks : CaptureEnd(t)
    \/ \E t \in Tasks : WinCapture(t)
    \/ \E t \in Tasks : WinSave(t)

Spec == Init /\ [][Next]_vars

\* every capture command, invoked concurrently
NextAll ==
    \/ Next
    \/ \E t \in Tasks : InvokeOnce(t)
    \/ \E t \in Tasks : OnceFinish(t)
    \/ \E t \in Tasks : InvokeAll(t)
    \/ \E t \in Tasks : AllFinish(t)

SpecAll == Init /\ [][NextAll]_vars

\* the commands that save an image and write the clipboard
NextImage ==
    \/ \E t \in Tasks : SaveEditedImage(t)
    \/ \E t \in Tasks : CopyImage(t)
    \/ \E t \in Tasks : InvokeOnce(t)
    \/ \E t \in Tasks : OnceFinish(t)

SpecImage == Init /\ [][NextImage]_vars

\* ================================================================ claims
Has(l, e) == \E i \in DOMAIN l : l[i] = e

\* a task leaves a native capture with its result in this step
NativeReturn == \E t \in Tasks : pc[t] \in CriticalPcs /\ pc'[t] = "idle"

\* C1: at most one invocation of the three native captures is between
\* taking SCREENCAPTURE_LOCK and returning, so at most one liveness check,
\* permission probe or capture subprocess of these commands is active.
C1_MutualExclusion ==
    /\ Cardinality({t \in Tasks : pc[t] \in CriticalPcs}) <= 1
    /\ Cardinality({t \in Tasks : pc[t] \in {"probing", "capturing"}}) <= 1

\* a capture subprocess runs while a second invocation is waiting
C1_Witness ==
    \E t, u \in Tasks : pc[t] = "capturing" /\ pc[u] = "blocked"

\* C2: an invocation that finds another native capture in flight returns
\* the "already in progress" error; it never waits for the lock and then
\* goes on to run its own capture.
C2_FailFast ==
    [][\A t \in Tasks : pc[t] = "blocked" => pc'[t] # "locked"]_vars

\* C3: the lock is held only by an invocation that has not returned yet:
\* once a native capture has returned, with Ok or with any error, the lock
\* is free again for the next invocation.
C3_LockReleased ==
    /\ lock # 0 => pc[lock] \in CriticalPcs
    /\ (\A t \in Tasks : pc[t] \notin CriticalPcs) => LockFree

\* a capture returned an error and a later invocation holds the lock
C3_Witness ==
    /\ ret.op \in NativeOps
    /\ ~ret.res.ok
    /\ ret.cause \in {"in_progress", "gate", "filename", "spawn", "wait", "exit",
                      "missing", "no_monitors", "save"}
    /\ \E t \in Tasks : pc[t] = "locked"

\* C4 as stated: every command that captures the screen, capture_once and
\* capture_all_monitors included, holds the lock while it captures.
C4_AllCapturesLocked ==
    \A t \in Tasks :
        pc[t] \in CriticalPcs \cup {"once_capturing", "all_capturing"} => lock = t

\* C4: the three native captures hold the lock while they capture;
\* capture_once and capture_all_monitors never hold it.
C4_NativeCapturesLocked ==
    /\ \A t \in Tasks : pc[t] \in CriticalPcs => lock = t
    /\ \A t \in Tasks : pc[t] \in {"once_capturing", "all_capturing"} => lock # t

\* capture_once captures while a native capture subprocess runs
C4_Witness ==
    \E t, u \in Tasks : pc[t] = "capturing" /\ pc[u] = "once_capturing"

\* the steps of the native captures in flight and of the last one returned
NativeLogs ==
    {log[t] : t \in {u \in Tasks : op[u] \in NativeOps}}
        \cup (IF ret.op \in NativeOps THEN {ret.log} ELSE {})

\* C5: on macOS the real screencapture is started only after the lock was
\* taken, the liveness check found no process and the probe passed, in this
\* order; a positive liveness check ends the command with the
\* already-in-progress error before any probe or capture, and a denial in
\* the probe ends it with the permission error before any capture.
C5_ProtocolOrder ==
    platform = "macos" =>
        /\ \A l \in NativeLogs :
            /\ (Has(l, "spawn") \/ Has(l, "spawn:failed")) =>
                    /\ Len(l) >= 5
                    /\ SubSeq(l, 1, 4) = <<"lock", "pgrep:none", "probe", "probe:ok">>
                    /\ \A i \in 1..4 : l[i] \notin {"spawn", "spawn:failed"}
            /\ Has(l, "pgrep:running") => l = <<"lock", "pgrep:running">>
            /\ Has(l, "probe:denied") =>
                    l = <<"lock", "pgrep:none", "probe", "probe:denied">>
        /\ (ret.op \in NativeOps /\ Has(ret.log, "pgrep:running")) =>
                ret.res = Err(ErrInProgress)
        /\ (ret.op \in NativeOps /\ Has(ret.log, "probe:denied")) =>
                ret.res = Err(GateMessage(ErrNotGranted))

\* the real screencapture runs
C5_Witness ==
    /\ platform = "macos"
    /\ \E t \in Tasks : pc[t] = "capturing" /\ Has(log[t], "spawn")

\* C6: whenever no probe is running, the probe file does not exist (every
\* return of check_and_activate_permission has removed it).
C6_ProbeCleanup ==
    (\A t \in Tasks : pc[t] # "probing") => ~probeFile

\* C7 as stated: on every platform Ok is returned only after the
\* destination file was looked for.
C7_VerifiedEverywhere ==
    (ret.op \in NativeOps /\ ret.res.ok) => Has(ret.log, "exists")

ScreenshotNames == {GenerateFilename("screenshot", "png", n) : n \in Stamps}

\* C7: a native capture returns Ok(path) only with a file at path, path
\* being save_dir joined with the generated screenshot name; on macOS after
\* looking for the file, on Windows on the word of image.save alone.
C7_OkImpliesFile ==
    [][(NativeReturn /\ ret'.op \in NativeOps /\ ret'.res.ok) =>
            /\ ret'.res.path \in files'
            /\ ret'.res.path.dir = ret'.arg.dir
            /\ ret'.res.path.file \in ScreenshotNames
            /\ platform = "macos" => Has(ret'.log, "exists")
            /\ platform = "windows" =>
                    (Has(ret'.log, "save") /\ ~Has(ret'.log, "exists"))]_vars

\* a macOS capture returned Ok
C7_Witness ==
    /\ platform = "macos"
    /\ ret.op \in NativeOps
    /\ ret.res.ok
    /\ ret.res.path \in files

\* the failure conditions the claim C8 names
FailureConditions == {"spawn", "exit", "exit_perm", "gate", "missing"}

\* C8 as stated: the string of a failure condition is the string of no
\* other failure condition of the same variant.
C8_AllDistinct ==
    (platform = "macos" /\ ret.op \in NativeOps /\ ret.cause \in FailureConditions) =>
        \A c \in FailureConditions \ {ret.cause} :
            ~(c = "exit_perm" /\ ret.op = "fullscreen") =>
                ErrorFor(ret.op, c) # ret.res.msg

\* C8: within a macOS variant the strings of spawn failure, gate denial
\* and failed capture differ, while a non-zero exit (without a permission
\* phrase in stderr) and a missing output file have the same string.
C8_DistinctButExitAndMissing ==
    (platform = "macos" /\ ret.op \in NativeOps /\ ret.cause \in FailureConditions) =>
        /\ ret.res.msg = ErrorFor(ret.op, ret.cause)
        /\ \A c \in FailureConditions \ {ret.cause} :
            ~(c = "exit_perm" /\ ret.op = "fullscreen") =>
                ((ErrorFor(ret.op, c) = ret.res.msg) <=> ({c, ret.cause} = {"exit", "missing"}))

\* a capture ended with a success status and no file
C8_Witness ==
    /\ platform = "macos"
    /\ ret.op \in NativeOps
    /\ ret.cause = "missing"
    /\ ret.res.msg = ErrorFor(ret.op, "exit")

\* C9: copy_image_to_clipboard on a path where no file exists returns an
\* error on every platform: on Windows before any process is started (also
\* for a path that is not a regular file), on macOS from osascript, which is
\* invoked without a check of the path, elsewhere the unsupported-platform
\* error without a process.
C9_NonexistentPath ==
    LET k == PathKind(ret.arg.path, files) IN
    (ret.op = "copy_image_to_clipboard" /\ k # "file") =>
        /\ ~ret.res.ok
        /\ platform = "windows" =>
            /\ ret.log = <<"clipboard">>
            /\ ret.res.msg = (IF k = "none" THEN "File not found: " ELSE "Path is not a file: ")
                                \o PathString(ret.arg.path)
        /\ platform = "macos" =>
            \/ ret.log = <<"clipboard", "osascript">> /\ ret.res.msg = ClipboardFailed("execution error")
            \/ ret.log = <<"clipboard">> /\ ret.res.msg = "Failed to execute osascript: " \o IoError
        /\ platform = "other" =>
            /\ ret.log = <<"clipboard">>
            /\ ret.res.msg = ErrClipboardUnsupported

\* the copy of a missing file was refused on Windows
C9_Witness ==
    /\ platform = "windows"
    /\ ret.op = "copy_image_to_clipboard"
    /\ PathKind(ret.arg.path, files) = "none"
    /\ ~ret.res.ok

\* C10: save_edited_image on a payload that does not decode returns the
\* decode error, leaves the files as they were and does not call the
\* clipboard writer, whatever copy_to_clip is.
C10_MalformedPayload ==
    [][(ret'.op = "save_edited_image" /\ ~ret'.arg.valid /\ (ret' # ret \/ files' # files)) =>
            /\ ret'.res = Err(ErrDecode)
            /\ files' = files
            /\ ~Has(ret'.log, "clipboard")]_vars

\* a malformed payload was given with copy_to_clip = true
C10_Witness ==
    /\ ret.op = "save_edited_image"
    /\ ~ret.arg.valid
    /\ ret.arg.clip
    /\ ~ret.res.ok

\* the number of times e occurs in l
Count(l, e) == Cardinality({i \in DOMAIN l : l[i] = e})

\* task t, running native_capture_window on Windows, returns in this step
WindowReturn(t) ==
    /\ platform = "windows"
    /\ op[t] = "window"
    /\ pc[t] \in CriticalPcs
    /\ pc'[t] = "idle"

\* C11: on Windows native_capture_window is native_capture_fullscreen: every
\* return of a window capture is the result, the file effect and the steps
\* of the fullscreen implementation under some environment outcome, and
\* every outcome of the fullscreen implementation is open to a window
\* capture; the invocation takes SCREENCAPTURE_LOCK exactly once and never
\* waits for a lock it holds itself.
C11_WindowIsFullscreen ==
    /\ [](\A t \in Tasks : ~(pc[t] = "blocked" /\ lock = t))
    /\ [](\A t \in Tasks : (platform = "windows" /\ pc[t] \in CriticalPcs) => Count(log[t], "lock") = 1)
    /\ [][\A t \in Tasks : WindowReturn(t) =>
            /\ lock = t /\ lock' = 0
            /\ ret'.op = "window"
            /\ Count(ret'.log, "lock") = 1
            /\ \E e \in WinEnvs :
                LET f == NativeCaptureFullscreenWindows(dir[t], files, e) IN
                /\ ret'.res = f.res
                /\ ret'.cause = f.cause
                /\ ret'.log = f.ev
                /\ files' = f.files]_vars
    /\ [](\A t \in Tasks : \A e \in WinEnvs :
            LET f == NativeCaptureFullscreenWindows(dir[t], files, e) IN
            (platform = "windows" /\ op[t] = "window") =>
                /\ pc[t] = "locked" =>
                      IF Len(f.ev) = 1
                      THEN ENABLED (WinCapture(t) /\ ret'.res = f.res /\ ret'.log = f.ev)
                      ELSE ENABLED (WinCapture(t) /\ pc'[t] = "captured")
                /\ (pc[t] = "captured" /\ Len(f.ev) > 1) =>
                      ENABLED (WinSave(t) /\ ret'.res = f.res /\ ret'.log = f.ev
                                          /\ files' = f.files))

\* a window capture on Windows returned the path of the full-screen shot it
\* saved, after one lock acquisition
C11_Witness ==
    /\ platform = "windows"
    /\ ret.op = "window"
    /\ ret.res.ok
    /\ ret.res.path \in files
    /\ ret.log = <<"lock", "capture_image", "save">>

\* the commands that save an image and then may write the clipboard, with
\* the prefix of the file names they save under
SavingOps == {"capture_once", "save_edited_image"}
SavePrefix(o) == IF o = "capture_once" THEN "screenshot" ELSE "bettershot"

\* the files of command o that are present in save_dir d
SavedFiles(o, d, fs) ==
    {Join(d, GenerateFilename(SavePrefix(o), "png", n)) : n \in Stamps} \cap fs

\* C12: capture_once and save_edited_image save the file before they try
\* the clipboard and do not roll back: no step of theirs removes a file;
\* with copy_to_clip = false the clipboard writer is not invoked; when it
\* is invoked the save has succeeded and the saved file is in save_dir;
\* the command then returns the saved path only if the copy succeeded, and
\* otherwise returns the clipboard error, without a path, while the saved
\* file stays in save_dir.
C12_NoRollback ==
    [][(ret'.op \in SavingOps /\ (ret' # ret \/ files' # files)) =>
        LET r == ret'
            saved == SavedFiles(r.op, r.arg.dir, files') IN
        /\ files \subseteq files'
        /\ ~r.arg.clip => (~Has(r.log, "clipboard") /\ r.cause # "clipboard")
        /\ r.cause = "clipboard" => Has(r.log, "clipboard")
        /\ Has(r.log, "clipboard") =>
            /\ r.arg.clip
            /\ r.log[1] = "save" /\ r.log[2] = "clipboard"
            /\ saved # {}
            /\ IF r.res.ok
               THEN /\ r.res.path \in saved
                    /\ \E env \in ClipEnvs :
                        LET cb == CopyImageToClipboard(platform, r.res.path, files', env) IN
                        cb.res.ok /\ r.log = <<"save", "clipboard">> \o cb.procs
               ELSE /\ r.res.path = NoPath
                    /\ r.cause = "clipboard"
                    /\ \E q \in saved, env \in ClipEnvs :
                        LET cb == CopyImageToClipboard(platform, q, files', env) IN
                        /\ ~cb.res.ok
                        /\ r.res = cb.res
                        /\ r.log = <<"save", "clipboard">> \o cb.procs]_vars

\* capture_once with copy_to_clip = true failed in PowerShell after the
\* screenshot was saved: the caller has an error, save_dir has the file
C12_Witness ==
    /\ platform = "windows"
    /\ ret.op = "capture_once"
    /\ ret.arg.clip
    /\ ~ret.res.ok
    /\ ret.res.msg = ClipboardFailed("exception")
    /\ ret.log = <<"save", "clipboard", "powershell">>
    /\ SavedFiles("capture_once", ret.arg.dir, files) # {}

====
